---- MODULE Spec2Model ----
(***************************************************************************)
(* Model of src/src/index.ts: an in-memory video store behind five HTTP    *)
(* routes, with declarative field validation.                              *)
(*                                                                         *)
(* JSON / JavaScript values are records of one shape, so that any two of   *)
(* them can be compared: type is the JavaScript type, chars the UTF-16     *)
(* code units of a string, num the value of a number, bool the value of a  *)
(* boolean, items the elements of an array.                                *)
(***************************************************************************)
EXTENDS Integers, Sequences, FiniteSets, TLC

\* ------------------------------------------------------------------ bounds
\* The clock (Date.now()) runs over 0..MaxClock milliseconds.
MaxClock == 1
\* The store holds at most MaxVideos entities.
MaxVideos == 3
\* At most MaxRequests requests are handled in one run.
MaxRequests == 4
\* At most MaxLongRunRequests requests are handled in one run of SpecLongRun.
MaxLongRunRequests == 5
\* The strings validateField is called on have at most MaxProbeLen code units.
MaxProbeLen == 4

\* ------------------------------------------------------- JavaScript values
Undefined == [type |-> "undefined", chars |-> <<>>, num |-> 0, bool |-> FALSE, items |-> <<>>]
Null == [type |-> "null", chars |-> <<>>, num |-> 0, bool |-> FALSE, items |-> <<>>]
NaN == [type |-> "NaN", chars |-> <<>>, num |-> 0, bool |-> FALSE, items |-> <<>>]
Str(cs) == [type |-> "string", chars |-> cs, num |-> 0, bool |-> FALSE, items |-> <<>>]
Num(n) == [type |-> "number", chars |-> <<>>, num |-> n, bool |-> FALSE, items |-> <<>>]
Bool(b) == [type |-> "boolean", chars |-> <<>>, num |-> 0, bool |-> b, items |-> <<>>]
Arr(xs) == [type |-> "array", chars |-> <<>>, num |-> 0, bool |-> FALSE, items |-> xs]

\* A string of n code units, all equal to c.
Rep(c, n) == [i \in 1..n |-> c]

\* JavaScript truthiness, as used by the || operator.
Truthy(v) ==
  CASE v.type = "undefined" -> FALSE
    [] v.type = "null" -> FALSE
    [] v.type = "NaN" -> FALSE
    [] v.type = "boolean" -> v.bool
    [] v.type = "number" -> v.num # 0
    [] v.type = "string" -> Len(v.chars) > 0
    [] OTHER -> TRUE

\* a || b
JsOr(a, b) == IF Truthy(a) THEN a ELSE b

\* a === b on the values of this model (NaN is equal to nothing).
StrictEquals(a, b) == a.type # "NaN" /\ b.type # "NaN" /\ a = b

\* ---------------------------------------------------------------- the enum
VideoQuality == <<"144p", "240p", "360p", "480p", "720p", "1080p", "1440p", "2160p">>

Range(s) == {s[i] : i \in 1..Len(s)}

\* Array.prototype.includes on an array of strings.
Includes(xs, item) == item \in Range(xs)

\* --------------------------------------------------------- validation rules
\* An optional rule member is a sequence: <<>> when it is not set, <<v>> when
\* it is set to v.
Rule(fieldName, isRequired, isString, minLength, maxLength, isArray, enumValues) ==
  [fieldName |-> fieldName, isRequired |-> isRequired, isString |-> isString,
   minLength |-> minLength, maxLength |-> maxLength, isArray |-> isArray,
   enumValues |-> enumValues]

\* Error messages: the template used, the field name and the rule's number or
\* the offending item that the template interpolates.
NoError == [kind |-> "null", fieldName |-> "", n |-> 0, item |-> ""]
ErrRequired(f) == [kind |-> "is required.", fieldName |-> f, n |-> 0, item |-> ""]
ErrString(f) == [kind |-> "must be a string.", fieldName |-> f, n |-> 0, item |-> ""]
ErrMin(f, n) == [kind |-> "length (minimum n characters).", fieldName |-> f, n |-> n, item |-> ""]
ErrMax(f, n) == [kind |-> "length (maximum n characters).", fieldName |-> f, n |-> n, item |-> ""]
ErrArray(f) == [kind |-> "must be an array.", fieldName |-> f, n |-> 0, item |-> ""]
ErrEnum(f, item) == [kind |-> "Invalid field: item", fieldName |-> f, n |-> 0, item |-> item]

\* The last index of xs from i on whose element is not in allowed, 0 when
\* there is none: a loop that does not return at the first offender.
FirstNotIncluded_Last(xs, allowed, i) ==
  LET bad == {k \in i..Len(xs) : ~Includes(allowed, xs[k])}
  IN IF bad = {} THEN 0 ELSE CHOOSE k \in bad : \A j \in bad : j <= k

\* The first index of xs whose element is not in allowed, 0 when there is none.
RECURSIVE FirstNotIncluded(_, _, _)
FirstNotIncluded(xs, allowed, i) ==
  IF i > Len(xs) THEN 0
  ELSE IF ~Includes(allowed, xs[i]) THEN i
  ELSE FirstNotIncluded(xs, allowed, i + 1)

\* validateField without the maxLength check.
validateField_NoMaxLength(value, rules) ==
  LET f == rules.fieldName IN
  IF rules.isRequired /\ value.type \in {"undefined", "null"} THEN ErrRequired(f)
  ELSE IF rules.isString /\ value.type # "string" THEN ErrString(f)
  ELSE IF rules.isString /\ rules.minLength # <<>> /\ Len(value.chars) < rules.minLength[1]
    THEN ErrMin(f, rules.minLength[1])
  ELSE IF rules.isArray /\ value.type # "array" THEN ErrArray(f)
  ELSE IF rules.enumValues # <<>> /\ rules.isArray
          /\ FirstNotIncluded(value.items, rules.enumValues[1], 1) # 0
    THEN ErrEnum(f, value.items[FirstNotIncluded(value.items, rules.enumValues[1], 1)])
  ELSE NoError

\* validateField without the minLength check.
validateField_NoMinLength(value, rules) ==
  LET f == rules.fieldName IN
  IF rules.isRequired /\ value.type \in {"undefined", "null"} THEN ErrRequired(f)
  ELSE IF rules.isString /\ value.type # "string" THEN ErrString(f)
  ELSE IF rules.isString /\ rules.maxLength # <<>> /\ Len(value.chars) > rules.maxLength[1]
    THEN ErrMax(f, rules.maxLength[1])
  ELSE IF rules.isArray /\ value.type # "array" THEN ErrArray(f)
  ELSE IF rules.enumValues # <<>> /\ rules.isArray
          /\ FirstNotIncluded(value.items, rules.enumValues[1], 1) # 0
    THEN ErrEnum(f, value.items[FirstNotIncluded(value.items, rules.enumValues[1], 1)])
  ELSE NoError

\* validateField with the array check moved before the string checks.
validateField_ArrayFirst(value, rules) ==
  LET f == rules.fieldName IN
  IF rules.isRequired /\ value.type \in {"undefined", "null"} THEN ErrRequired(f)
  ELSE IF rules.isArray /\ value.type # "array" THEN ErrArray(f)
  ELSE IF rules.isString /\ value.type # "string" THEN ErrString(f)
  ELSE IF rules.isString /\ rules.minLength # <<>> /\ Len(value.chars) < rules.minLength[1]
    THEN ErrMin(f, rules.minLength[1])
  ELSE IF rules.isString /\ rules.maxLength # <<>> /\ Len(value.chars) > rules.maxLength[1]
    THEN ErrMax(f, rules.maxLength[1])
  ELSE IF rules.enumValues # <<>> /\ rules.isArray
          /\ FirstNotIncluded(value.items, rules.enumValues[1], 1) # 0
    THEN ErrEnum(f, value.items[FirstNotIncluded(value.items, rules.enumValues[1], 1)])
  ELSE NoError

\* const validateField = (value, rules) => string | null
validateField(value, rules) ==
  LET f == rules.fieldName IN
  IF rules.isRequired /\ value.type \in {"undefined", "null"} THEN ErrRequired(f)
  ELSE IF rules.isString /\ value.type # "string" THEN ErrString(f)
  ELSE IF rules.isString /\ rules.minLength # <<>> /\ Len(value.chars) < rules.minLength[1]
    THEN ErrMin(f, rules.minLength[1])
  ELSE IF rules.isString /\ rules.maxLength # <<>> /\ Len(value.chars) > rules.maxLength[1]
    THEN ErrMax(f, rules.maxLength[1])
  ELSE IF rules.isArray /\ value.type # "array" THEN ErrArray(f)
  ELSE IF rules.enumValues # <<>> /\ rules.isArray
          /\ FirstNotIncluded(value.items, rules.enumValues[1], 1) # 0
    THEN ErrEnum(f, value.items[FirstNotIncluded(value.items, rules.enumValues[1], 1)])
  ELSE NoError

TitleMaxLength == 40
AuthorMaxLength == 20

validationRules ==
  << Rule("title", TRUE, TRUE, <<1>>, <<TitleMaxLength>>, FALSE, <<>>),
     Rule("author", TRUE, TRUE, <<1>>, <<AuthorMaxLength>>, FALSE, <<>>),
     Rule("availableResolutions", TRUE, FALSE, <<>>, <<>>, TRUE, <<VideoQuality>>) >>

\* The errors of rules i.. of validationRules against body, in rule order.
RECURSIVE validateFrom(_, _)
validateFrom(body, i) ==
  IF i > Len(validationRules) THEN <<>>
  ELSE LET validationError == validateField(body[validationRules[i].fieldName], validationRules[i])
       IN (IF validationError # NoError THEN <<validationError>> ELSE <<>>)
          \o validateFrom(body, i + 1)

\* validateVideoInput that returns at the first field in error.
validateVideoInput_FirstOnly(body) ==
  IF validateFrom(body, 1) = <<>> THEN <<>> ELSE <<validateFrom(body, 1)[1]>>

\* const validateVideoInput = (req) => string[]
validateVideoInput(body) == validateFrom(body, 1)

\* ------------------------------------------------------------ request input
Fields == {"id", "title", "author", "canBeDownloaded", "minAgeRestriction",
           "createdAt", "publicationDate", "availableResolutions"}

\* req.body after bodyParser.json(): a member that the JSON text does not
\* have reads as undefined.
EmptyBody == [f \in Fields |-> Undefined]

\* {title: "A", author: "B", availableResolutions: ["720p"]}
BaseBody == [EmptyBody EXCEPT !["title"] = Str(<<65>>), !["author"] = Str(<<66>>),
                              !["availableResolutions"] = Arr(<<"720p">>)]

TitleInputs == {Num(7), Str(<<>>), Str(Rep(65, TitleMaxLength)),
                Str(Rep(65, TitleMaxLength + 1))}
AuthorInputs == {Str(<<>>), Str(Rep(66, AuthorMaxLength)),
                 Str(Rep(66, AuthorMaxLength + 1))}
ResolutionInputs == {Str(<<55, 50, 48, 112>>), Arr(<<>>), Arr(<<"720p", "999p", "4k">>)}

\* The request bodies the model sends: the base body with one member changed,
\* the base body with members the rules do not cover, and the empty body.
Bodies ==
  {BaseBody, EmptyBody}
  \cup {[BaseBody EXCEPT !["title"] = t] : t \in TitleInputs}
  \cup {[BaseBody EXCEPT !["author"] = a] : a \in AuthorInputs}
  \cup {[BaseBody EXCEPT !["availableResolutions"] = r] : r \in ResolutionInputs}
  \cup {[BaseBody EXCEPT !["canBeDownloaded"] = Bool(TRUE), !["minAgeRestriction"] = Num(18)],
        [BaseBody EXCEPT !["canBeDownloaded"] = Bool(FALSE), !["minAgeRestriction"] = Num(0)],
        [BaseBody EXCEPT !["id"] = Num(0), !["createdAt"] = Str(<<120>>)]}

\* req.params.id is a string of the URL: a decimal numeral of n, or text that
\* is no numeral.
Params == {[numeric |-> TRUE, n |-> k] : k \in 0..(MaxClock + 1)}
          \cup {[numeric |-> FALSE, n |-> 0]}
NoParam == [numeric |-> FALSE, n |-> 0]

\* +req.params.id
ToNumber(param) == IF param.numeric THEN Num(param.n) ELSE NaN

\* --------------------------------------------------------------- timestamps
DayMs == 86400000

\* Date.prototype.toISOString of a time value: the calendar day (counted from
\* the epoch of the model's clock) and the hour, minute, second and
\* millisecond of that day.
toISOString(ms) ==
  Str(<< ms \div DayMs, (ms % DayMs) \div 3600000, (ms % 3600000) \div 60000,
         (ms % 60000) \div 1000, ms % 1000 >>)

\* The time value an ISO string denotes (Date.parse), used to state claims.
IsoToMs(v) ==
  v.chars[1] * DayMs + v.chars[2] * 3600000 + v.chars[3] * 60000
  + v.chars[4] * 1000 + v.chars[5]

\* -------------------------------------------------------------------- state
VARIABLES
  videos,      \* const videos: VideoType[]
  now,         \* the last value the clock was read at
  last,        \* the last request handled and the response sent for it
  born,        \* born[i]: the ordinal of the Create that inserted videos[i]
  nCreated,    \* the number of Creates that answered 201
  nDeleted,    \* the number of Deletes that answered 204
  nRequests,   \* the number of requests handled
  probe        \* a call of validateField or validateVideoInput on its own

vars == <<videos, now, last, born, nCreated, nDeleted, nRequests, probe>>

\* videos.findIndex((video) => video.id === target): the first index, 0 for -1.
RECURSIVE findFrom(_, _, _)
findFrom(vs, target, i) ==
  IF i > Len(vs) THEN 0
  ELSE IF StrictEquals(vs[i].id, target) THEN i
  ELSE findFrom(vs, target, i + 1)

\* findIndex that does not look at the first entity.
findIndex_FromSecond(vs, target) == findFrom(vs, target, 2)

\* videos.findLastIndex: the last index whose entity has the id, 0 for -1.
findIndex_Last(vs, target) ==
  LET hits == {i \in 1..Len(vs) : StrictEquals(vs[i].id, target)}
  IN IF hits = {} THEN 0 ELSE CHOOSE i \in hits : \A j \in hits : j <= i

findIndex(vs, target) == findFrom(vs, target, 1)

\* vs.splice(i): without the delete count, everything from i on is removed.
spliceOut_NoCount(vs, i) == [j \in 1..(i - 1) |-> vs[j]]

\* vs.splice(i, 1)
spliceOut(vs, i) == [j \in 1..(Len(vs) - 1) |-> IF j < i THEN vs[j] ELSE vs[j + 1]]

\* {...body, ...old}: the spread in the wrong order.
spread_Reversed(old, body) ==
  [f \in Fields |-> IF old[f].type # "undefined" THEN old[f] ELSE body[f]]

\* {...old, ...body}: every member the body has overwrites the old one.
spread(old, body) ==
  [f \in Fields |-> IF body[f].type # "undefined" THEN body[f] ELSE old[f]]

\* ---------------------------------------------------------------- responses
VideoNotFound == [kind |-> "Video not found", fieldName |-> "", n |-> 0, item |-> ""]

Response(status, kind, sent, errorsMessages) ==
  [status |-> status, kind |-> kind, sent |-> sent, errorsMessages |-> errorsMessages]

\* res.status(400).json({errorsMessages: validationErrors.map(...)})
ValidationFailed(validationErrors) ==
  Response(400, "errorsMessages", <<>>,
           [i \in 1..Len(validationErrors) |->
              [message |-> validationErrors[i], field |-> "validation"]])

Handled(op, param, body, res) == [op |-> op, param |-> param, body |-> body, res |-> res]

\* A call of fn that is about to be made (pc = "call") or has returned error
\* (validateField) or errors (validateVideoInput) (pc = "done").
Probe(fn, value, rules, body, pc, error, errors) ==
  [fn |-> fn, value |-> value, rules |-> rules, body |-> body, pc |-> pc,
   error |-> error, errors |-> errors]

NoRule == Rule("", FALSE, FALSE, <<>>, <<>>, FALSE, <<>>)

\* No call on its own: the functions run inside the route handlers.
NoProbe == Probe("none", Undefined, NoRule, EmptyBody, "done", NoError, <<>>)

Init ==
  /\ probe = NoProbe
  /\ videos = <<>>
  /\ now = 0
  /\ last = Handled("none", NoParam, EmptyBody, Response(0, "none", <<>>, <<>>))
  /\ born = <<>>
  /\ nCreated = 0
  /\ nDeleted = 0
  /\ nRequests = 0

\* app.get("/videos")
List ==
  /\ last' = Handled("GET /videos", NoParam, EmptyBody, Response(200, "array", videos, <<>>))
  /\ nRequests' = nRequests + 1
  /\ UNCHANGED <<videos, now, born, nCreated, nDeleted>>

\* app.get("/videos/:id")
Get(param) ==
  LET videoIndex == findIndex(videos, ToNumber(param)) IN
  /\ last' = Handled("GET /videos/:id", param, EmptyBody,
                     IF videoIndex # 0
                       THEN Response(200, "video", <<videos[videoIndex]>>, <<>>)
                       ELSE Response(404, "status text", <<>>, <<>>))
  /\ nRequests' = nRequests + 1
  /\ UNCHANGED <<videos, now, born, nCreated, nDeleted>>

\* The entity that app.post builds when the clock reads t1, t2 and t3.
newVideo(body, t1, t2, t3) ==
  [id |-> Num(t1),
   title |-> body.title,
   author |-> body.author,
   canBeDownloaded |-> JsOr(body.canBeDownloaded, Bool(FALSE)),
   minAgeRestriction |-> JsOr(body.minAgeRestriction, Null),
   createdAt |-> toISOString(t2),
   publicationDate |-> toISOString(t3 + DayMs),
   availableResolutions |-> JsOr(body.availableResolutions, Arr(<<>>))]

\* app.post that pushes the entity before it looks at the validation errors.
Create_PushBeforeValidate(body, t1, t2, t3) ==
  LET validationErrors == validateVideoInput(body) IN
  /\ now <= t1 /\ t1 <= t2 /\ t2 <= t3
  /\ nRequests' = nRequests + 1
  /\ Len(videos) < MaxVideos
  /\ videos' = Append(videos, newVideo(body, t1, t2, t3))
  /\ now' = t3
  /\ born' = Append(born, nCreated + 1)
  /\ IF Len(validationErrors) > 0
       THEN /\ last' = Handled("POST /videos", NoParam, body, ValidationFailed(validationErrors))
            /\ UNCHANGED <<nCreated, nDeleted>>
       ELSE /\ nCreated' = nCreated + 1
            /\ last' = Handled("POST /videos", NoParam, body,
                               Response(201, "video", <<newVideo(body, t1, t2, t3)>>, <<>>))
            /\ UNCHANGED nDeleted

\* app.post("/videos"): the handler reads the clock three times (Date.now(),
\* new Date(), Date.now()), and the clock may advance before each read.
Create(body, t1, t2, t3) ==
  LET validationErrors == validateVideoInput(body) IN
  /\ now <= t1 /\ t1 <= t2 /\ t2 <= t3
  /\ nRequests' = nRequests + 1
  /\ IF Len(validationErrors) > 0
       THEN /\ t1 = now /\ t3 = now
            /\ last' = Handled("POST /videos", NoParam, body, ValidationFailed(validationErrors))
            /\ UNCHANGED <<videos, now, born, nCreated, nDeleted>>
       ELSE /\ Len(videos) < MaxVideos
            /\ videos' = Append(videos, newVideo(body, t1, t2, t3))
            /\ now' = t3
            /\ born' = Append(born, nCreated + 1)
            /\ nCreated' = nCreated + 1
            /\ last' = Handled("POST /videos", NoParam, body,
                               Response(201, "video", <<newVideo(body, t1, t2, t3)>>, <<>>))
            /\ UNCHANGED nDeleted

\* app.put with the existence check before the validation.
Update_FindFirst(param, body) ==
  LET validationErrors == validateVideoInput(body)
      videoIndex == findIndex(videos, ToNumber(param)) IN
  /\ nRequests' = nRequests + 1
  /\ IF videoIndex = 0
       THEN /\ last' = Handled("PUT /videos/:id", param, body,
                               Response(404, "errorsMessages", <<>>,
                                        <<[message |-> VideoNotFound, field |-> "id"]>>))
            /\ UNCHANGED videos
       ELSE IF Len(validationErrors) > 0
       THEN /\ last' = Handled("PUT /videos/:id", param, body, ValidationFailed(validationErrors))
            /\ UNCHANGED videos
       ELSE /\ videos' = [videos EXCEPT ![videoIndex] = spread(videos[videoIndex], body)]
            /\ last' = Handled("PUT /videos/:id", param, body, Response(204, "empty", <<>>, <<>>))
  /\ UNCHANGED <<now, born, nCreated, nDeleted>>

\* app.put without the videoIndex !== -1 check: splice(-1, 1, {...undefined,
\* ...req.body}) replaces the last entity by the body.
Update_SpliceMinusOne(param, body) ==
  LET validationErrors == validateVideoInput(body)
      videoIndex == findIndex(videos, ToNumber(param))
      at == IF videoIndex # 0 THEN videoIndex ELSE Len(videos) IN
  /\ nRequests' = nRequests + 1
  /\ IF Len(validationErrors) > 0
       THEN /\ last' = Handled("PUT /videos/:id", param, body, ValidationFailed(validationErrors))
            /\ UNCHANGED videos
       ELSE /\ videos' = IF at = 0 THEN <<body>>
                         ELSE [videos EXCEPT ![at] =
                                 spread(IF videoIndex # 0 THEN videos[at] ELSE EmptyBody, body)]
            /\ last' = Handled("PUT /videos/:id", param, body, Response(204, "empty", <<>>, <<>>))
  /\ UNCHANGED <<now, born, nCreated, nDeleted>>

\* app.put that maps over the store and merges the body into every entity
\* with the id, instead of splicing at videoIndex.
Update_ReplaceAll(param, body) ==
  LET validationErrors == validateVideoInput(body)
      videoIndex == findIndex(videos, ToNumber(param)) IN
  /\ nRequests' = nRequests + 1
  /\ IF Len(validationErrors) > 0
       THEN /\ last' = Handled("PUT /videos/:id", param, body, ValidationFailed(validationErrors))
            /\ UNCHANGED videos
       ELSE IF videoIndex # 0
       THEN /\ videos' = [i \in 1..Len(videos) |->
                            IF StrictEquals(videos[i].id, ToNumber(param))
                              THEN spread(videos[i], body) ELSE videos[i]]
            /\ last' = Handled("PUT /videos/:id", param, body, Response(204, "empty", <<>>, <<>>))
       ELSE /\ last' = Handled("PUT /videos/:id", param, body,
                               Response(404, "errorsMessages", <<>>,
                                        <<[message |-> VideoNotFound, field |-> "id"]>>))
            /\ UNCHANGED videos
  /\ UNCHANGED <<now, born, nCreated, nDeleted>>

\* app.put("/videos/:id")
Update(param, body) ==
  LET validationErrors == validateVideoInput(body)
      videoIndex == findIndex(videos, ToNumber(param)) IN
  /\ nRequests' = nRequests + 1
  /\ IF Len(validationErrors) > 0
       THEN /\ last' = Handled("PUT /videos/:id", param, body, ValidationFailed(validationErrors))
            /\ UNCHANGED videos
       ELSE IF videoIndex # 0
       THEN /\ videos' = [videos EXCEPT ![videoIndex] = spread(videos[videoIndex], body)]
            /\ last' = Handled("PUT /videos/:id", param, body, Response(204, "empty", <<>>, <<>>))
       ELSE /\ last' = Handled("PUT /videos/:id", param, body,
                               Response(404, "errorsMessages", <<>>,
                                        <<[message |-> VideoNotFound, field |-> "id"]>>))
            /\ UNCHANGED videos
  /\ UNCHANGED <<now, born, nCreated, nDeleted>>

\* app.delete that splices before it looks at index: splice(-1, 1) removes
\* the last entity, and the answer is still 404.
Delete_SpliceBeforeCheck(param) ==
  LET index == findIndex(videos, ToNumber(param))
      at == IF index # 0 THEN index ELSE Len(videos) IN
  /\ nRequests' = nRequests + 1
  /\ videos' = IF at = 0 THEN videos ELSE spliceOut(videos, at)
  /\ born' = IF at = 0 THEN born ELSE spliceOut(born, at)
  /\ IF index # 0
       THEN /\ nDeleted' = nDeleted + 1
            /\ last' = Handled("DELETE /videos/:id", param, EmptyBody,
                               Response(204, "status text", <<>>, <<>>))
       ELSE /\ last' = Handled("DELETE /videos/:id", param, EmptyBody,
                               Response(404, "status text", <<>>, <<>>))
            /\ UNCHANGED nDeleted
  /\ UNCHANGED <<now, nCreated>>

\* app.delete("/videos/:id")
Delete(param) ==
  LET index == findIndex(videos, ToNumber(param)) IN
  /\ nRequests' = nRequests + 1
  /\ IF index # 0
       THEN /\ videos' = spliceOut(videos, index)
            /\ born' = spliceOut(born, index)
            /\ nDeleted' = nDeleted + 1
            /\ last' = Handled("DELETE /videos/:id", param, EmptyBody,
                               Response(204, "status text", <<>>, <<>>))
       ELSE /\ last' = Handled("DELETE /videos/:id", param, EmptyBody,
                               Response(404, "status text", <<>>, <<>>))
            /\ UNCHANGED <<videos, born, nDeleted>>
  /\ UNCHANGED <<now, nCreated>>

Next ==
  \/ nRequests < MaxRequests /\ List /\ UNCHANGED probe
  \/ \E param \in Params : nRequests < MaxRequests /\ Get(param) /\ UNCHANGED probe
  \/ \E body \in Bodies : \E t1, t2, t3 \in 0..MaxClock :
       nRequests < MaxRequests /\ Create(body, t1, t2, t3) /\ UNCHANGED probe
  \/ \E param \in Params : \E body \in Bodies :
       nRequests < MaxRequests /\ Update(param, body) /\ UNCHANGED probe
  \/ \E param \in Params : nRequests < MaxRequests /\ Delete(param) /\ UNCHANGED probe

Spec == Init /\ [][Next]_vars

\* Longer runs with fewer bodies: the base body and the same with a title of
\* the greatest length.
LongRunBodies == {BaseBody, [BaseBody EXCEPT !["title"] = Str(Rep(65, TitleMaxLength))]}

NextLongRun ==
  \/ nRequests < MaxLongRunRequests /\ List /\ UNCHANGED probe
  \/ \E param \in Params : nRequests < MaxLongRunRequests /\ Get(param) /\ UNCHANGED probe
  \/ \E body \in LongRunBodies : \E t1, t2, t3 \in 0..MaxClock :
       nRequests < MaxLongRunRequests /\ Create(body, t1, t2, t3) /\ UNCHANGED probe
  \/ \E param \in Params : \E body \in LongRunBodies :
       nRequests < MaxLongRunRequests /\ Update(param, body) /\ UNCHANGED probe
  \/ \E param \in Params : nRequests < MaxLongRunRequests /\ Delete(param) /\ UNCHANGED probe

SpecLongRun == Init /\ [][NextLongRun]_vars

\* ------------------------------------------------- the validators on their own
\* The values validateField is called on: absent, null, a number, a boolean,
\* strings of 0..MaxProbeLen code units, and arrays without, with one and with
\* several elements outside the enum.
ProbeValues ==
  {Undefined, Null, Num(7), Bool(TRUE)}
  \cup {Str(Rep(65, n)) : n \in 0..MaxProbeLen}
  \cup {Arr(<<>>), Arr(<<"720p">>), Arr(<<"144p", "2160p">>), Arr(<<"720p", "999p", "4k">>),
        Arr(<<"4k", "144p", "999p">>)}

\* The rules validateField is called with: every setting of the flags, with
\* and without length limits (a minimum above the maximum included) and with
\* and without enumValues.
ProbeRules ==
  {Rule("field", isRequired, isString, minLength, maxLength, isArray, enumValues) :
     isRequired \in BOOLEAN, isString \in BOOLEAN, minLength \in {<<>>, <<1>>, <<3>>},
     maxLength \in {<<>>, <<1>>}, isArray \in BOOLEAN,
     enumValues \in {<<>>, <<VideoQuality>>}}

\* The bodies validateVideoInput is called on: every combination of a title,
\* an author and an availableResolutions that passes or fails in each way.
ProbeBodies ==
  {[EmptyBody EXCEPT !["title"] = t, !["author"] = a, !["availableResolutions"] = r] :
     t \in {Undefined, Null, Num(7), Str(<<>>), Str(<<65>>), Str(Rep(65, TitleMaxLength)),
            Str(Rep(65, TitleMaxLength + 1))},
     a \in {Undefined, Str(<<>>), Str(<<66>>), Str(Rep(66, AuthorMaxLength)),
            Str(Rep(66, AuthorMaxLength + 1))},
     r \in {Undefined, Str(<<55, 50, 48, 112>>), Arr(<<>>), Arr(<<"144p", "2160p">>),
            Arr(<<"720p", "999p", "4k">>)}}

InitValidate ==
  /\ videos = <<>>
  /\ now = 0
  /\ last = Handled("none", NoParam, EmptyBody, Response(0, "none", <<>>, <<>>))
  /\ born = <<>>
  /\ nCreated = 0
  /\ nDeleted = 0
  /\ nRequests = 0
  /\ \/ \E value \in ProbeValues : \E rules \in ProbeRules :
          probe = Probe("validateField", value, rules, EmptyBody, "call", NoError, <<>>)
     \/ \E body \in ProbeBodies :
          probe = Probe("validateVideoInput", Undefined, NoRule, body, "call", NoError, <<>>)

\* validateField(value, rules) returns.
CallValidateField ==
  /\ probe.fn = "validateField"
  /\ probe.pc = "call"
  /\ probe' = [probe EXCEPT !.pc = "done", !.error = validateField(probe.value, probe.rules)]
  /\ UNCHANGED <<videos, now, last, born, nCreated, nDeleted, nRequests>>

\* validateVideoInput(req) returns.
CallValidateVideoInput ==
  /\ probe.fn = "validateVideoInput"
  /\ probe.pc = "call"
  /\ probe' = [probe EXCEPT !.pc = "done", !.errors = validateVideoInput(probe.body)]
  /\ UNCHANGED <<videos, now, last, born, nCreated, nDeleted, nRequests>>

NextValidate == CallValidateField \/ CallValidateVideoInput

SpecValidate == InitValidate /\ [][NextValidate]_vars

\* ------------------------------------------------------------------ claims
\* The step handles a request of the given route.
Handles(op) == nRequests' = nRequests + 1 /\ last'.op = op

\* The payload as the data model of the specification wants it: a string
\* title of 1..40 code units, a string author of 1..20, an array of
\* resolutions of the fixed set.
MeetsRules(body) ==
  /\ body.title.type = "string"
  /\ Len(body.title.chars) \in 1..40
  /\ body.author.type = "string"
  /\ Len(body.author.chars) \in 1..20
  /\ body.availableResolutions.type = "array"
  /\ \A i \in 1..Len(body.availableResolutions.items) :
       body.availableResolutions.items[i] \in
         {"144p", "240p", "360p", "480p", "720p", "1080p", "1440p", "2160p"}

\* Some entity of vs has the id that param denotes.
HasId(vs, param) == \E i \in 1..Len(vs) : StrictEquals(vs[i].id, ToNumber(param))

\* C1: in every reachable state no two entities of the store have the same
\* id.
C1_UniqueIds ==
  \A i, j \in 1..Len(videos) : i # j => videos[i].id # videos[j].id

\* C2: a successful Update leaves the id and the createdAt of every entity,
\* the updated one included, as they were.
C2_IdCreatedAtImmutable ==
  [][(Handles("PUT /videos/:id") /\ last'.res.status = 204) =>
       /\ Len(videos') = Len(videos)
       /\ \A i \in 1..Len(videos) :
            /\ videos'[i].id = videos[i].id
            /\ videos'[i].createdAt = videos[i].createdAt]_vars

\* C3: in every reachable state every entity of the store has a string
\* title of 1..40 code units, a string author of 1..20 code units and an
\* array of resolutions each of which is of the fixed set.
C3_StoredFieldsValid ==
  \A i \in 1..Len(videos) : MeetsRules(videos[i])

\* C3 witness: an Update has succeeded and the store holds a title of the
\* greatest length allowed.
C3_Witness ==
  /\ last.op = "PUT /videos/:id"
  /\ last.res.status = 204
  /\ \E i \in 1..Len(videos) :
       /\ Len(videos[i].title.chars) = TitleMaxLength
       /\ videos[i].title = last.body.title

\* The payloads C4 is about: title of length 0 or more than 40, author of
\* length 0 or more than 20, or a resolution outside the fixed set.
C4_Rejected(body) ==
  \/ body.title.type = "string"
       /\ (Len(body.title.chars) = 0 \/ Len(body.title.chars) > 40)
  \/ body.author.type = "string"
       /\ (Len(body.author.chars) = 0 \/ Len(body.author.chars) > 20)
  \/ body.availableResolutions.type = "array"
       /\ \E i \in 1..Len(body.availableResolutions.items) :
            body.availableResolutions.items[i] \notin Range(VideoQuality)

\* C4: a Create whose payload has a title of length 0 or more than 40, an
\* author of length 0 or more than 20, or a resolution outside the fixed set
\* answers 400 with a non-empty error list and leaves the store as it was.
C4_CreateRejectsInvalid ==
  [][(Handles("POST /videos") /\ C4_Rejected(last'.body)) =>
       /\ last'.res.status = 400
       /\ Len(last'.res.errorsMessages) > 0
       /\ videos' = videos]_vars

\* C4 witness: a Create of such a payload was answered 400 on a store that
\* holds entities.
C4_Witness ==
  /\ last.op = "POST /videos"
  /\ C4_Rejected(last.body)
  /\ last.res.status = 400
  /\ Len(videos) > 0

\* C5: an Update whose payload fails validation answers 400, whether or not
\* an entity has the id, and leaves the store as it was.
C5_UpdateValidatesFirst ==
  [][(Handles("PUT /videos/:id") /\ ~MeetsRules(last'.body)) =>
       /\ last'.res.status = 400
       /\ videos' = videos]_vars

\* C5 witness: an Update with an invalid payload and an id that no entity has
\* was answered 400, on a store that holds entities.
C5_Witness ==
  /\ last.op = "PUT /videos/:id"
  /\ ~MeetsRules(last.body)
  /\ last.res.status = 400
  /\ Len(videos) > 0
  /\ ~HasId(videos, last.param)

\* C6: an Update with a valid payload and an id that no entity has answers
\* 404 and leaves the store as it was.
C6_UpdateNotFound ==
  [][(Handles("PUT /videos/:id") /\ MeetsRules(last'.body) /\ ~HasId(videos, last'.param)) =>
       /\ last'.res.status = 404
       /\ videos' = videos]_vars

\* C6 witness: an Update with a valid payload was answered 404 on a store
\* that holds entities.
C6_Witness ==
  /\ last.op = "PUT /videos/:id"
  /\ MeetsRules(last.body)
  /\ last.res.status = 404
  /\ Len(videos) > 0
  /\ ~HasId(videos, last.param)

\* The least index of vs whose entity has the id that param denotes.
Target(vs, param) ==
  CHOOSE i \in 1..Len(vs) :
    /\ StrictEquals(vs[i].id, ToNumber(param))
    /\ \A j \in 1..(i - 1) : ~StrictEquals(vs[j].id, ToNumber(param))

\* C7: an Update with a valid payload and an id that an entity has answers
\* 204 without a body; afterwards the targeted entity has the payload's value
\* for every member the payload has and its former value for every other.
C7_UpdateMerges ==
  [][(Handles("PUT /videos/:id") /\ MeetsRules(last'.body) /\ HasId(videos, last'.param)) =>
       /\ last'.res.status = 204
       /\ last'.res.kind = "empty"
       /\ Len(videos') = Len(videos)
       /\ \A f \in Fields :
            videos'[Target(videos, last'.param)][f] =
              IF last'.body[f].type # "undefined"
                THEN last'.body[f]
                ELSE videos[Target(videos, last'.param)][f]]_vars

\* C7 witness: after a successful Update an entity has the title of the
\* payload, which differs from the title it was created with, and keeps a
\* canBeDownloaded and a minAgeRestriction that the payload does not have.
C7_Witness ==
  /\ last.op = "PUT /videos/:id"
  /\ last.res.status = 204
  /\ last.body.canBeDownloaded = Undefined
  /\ last.body.minAgeRestriction = Undefined
  /\ \E i \in 1..Len(videos) :
       /\ videos[i].id = ToNumber(last.param)
       /\ videos[i].title = last.body.title
       /\ Len(videos[i].title.chars) = TitleMaxLength
       /\ videos[i].canBeDownloaded = Bool(TRUE)
       /\ videos[i].minAgeRestriction = Num(18)

\* C8: of two consecutive Deletes of the same id, the first of which
\* answers 204, the second answers 404.
C8_SecondDeleteNotFound ==
  [][(/\ last.op = "DELETE /videos/:id"
      /\ last.res.status = 204
      /\ Handles("DELETE /videos/:id")
      /\ last'.param = last.param) =>
       last'.res.status = 404]_vars

\* born is strictly increasing.
InCreationOrder == \A i, j \in 1..Len(born) : i < j => born[i] < born[j]

\* C9: after N successful Creates and one successful Delete, List returns
\* N - 1 entities, the entities of the store, in the order of their creation.
C9_ListAfterDelete ==
  (last.op = "GET /videos" /\ nDeleted = 1) =>
    /\ last.res.status = 200
    /\ last.res.sent = videos
    /\ Len(last.res.sent) = nCreated - 1
    /\ Len(born) = Len(videos)
    /\ InCreationOrder

\* C9 witness: List after three Creates and a Delete of the second entity
\* returned the first and the third.
C9_Witness ==
  /\ last.op = "GET /videos"
  /\ nCreated = 3
  /\ nDeleted = 1
  /\ Len(last.res.sent) = 2
  /\ born = <<1, 3>>

\* The payload has title, author and availableResolutions and nothing else.
OnlyRequired(body) ==
  \A f \in Fields : (body[f].type # "undefined") <=> f \in {"title", "author", "availableResolutions"}

\* C10: a Create with a valid payload of only title, author and
\* availableResolutions answers 201 with the entity it stores, whose
\* canBeDownloaded is false, whose minAgeRestriction is null and whose
\* publicationDate is its createdAt plus 86400000 ms, however the clock
\* advances between the handler's reads of it.
C10_CreateDefaults ==
  (last.op = "POST /videos" /\ MeetsRules(last.body) /\ OnlyRequired(last.body)) =>
    /\ last.res.status = 201
    /\ Len(last.res.sent) = 1
    /\ last.res.sent[1].canBeDownloaded = Bool(FALSE)
    /\ last.res.sent[1].minAgeRestriction = Null
    /\ IsoToMs(last.res.sent[1].publicationDate)
         = IsoToMs(last.res.sent[1].createdAt) + DayMs

\* C11: a Create with a valid payload that supplies canBeDownloaded = b
\* (true or false) or minAgeRestriction = n (any integer, 0 included) stores
\* and returns an entity that holds exactly b and n.
C11_CreateKeepsSupplied ==
  (last.op = "POST /videos" /\ last.res.status = 201) =>
    /\ last.body.canBeDownloaded.type = "boolean" =>
         last.res.sent[1].canBeDownloaded = last.body.canBeDownloaded
    /\ last.body.minAgeRestriction.type = "number" =>
         last.res.sent[1].minAgeRestriction = last.body.minAgeRestriction

\* C12: Get answers 200 with an entity whose id is the requested id when some
\* entity of the store has that id, and 404 exactly when none has.
C12_GetFindsById ==
  (last.op = "GET /videos/:id") =>
    /\ HasId(videos, last.param) =>
         /\ last.res.status = 200
         /\ Len(last.res.sent) = 1
         /\ StrictEquals(last.res.sent[1].id, ToNumber(last.param))
         /\ \E i \in 1..Len(videos) : videos[i] = last.res.sent[1]
    /\ ~HasId(videos, last.param) => last.res.status = 404 /\ last.res.sent = <<>>
    /\ last.res.status \in {200, 404}

\* C12 witness: a Get of an id that no entity has was answered 404 on a store
\* that holds entities.
C12_Witness ==
  /\ last.op = "GET /videos/:id"
  /\ Len(videos) > 0
  /\ last.param.numeric
  /\ ~HasId(videos, last.param)
  /\ last.res.status = 404

\* The step is a Create answered 201, a Delete answered 204, an Update
\* answered 204.
Created == Handles("POST /videos") /\ last'.res.status = 201
Deleted == Handles("DELETE /videos/:id") /\ last'.res.status = 204
Updated == Handles("PUT /videos/:id") /\ last'.res.status = 204

\* C13: the store is empty at startup; its membership changes only by a
\* Create answered 201 and a Delete answered 204 and its field values only by
\* an Update answered 204; in every reachable state the number of entities is
\* the number of such Creates minus the number of such Deletes.
C13_StoreLifecycle ==
  /\ videos = <<>>
  /\ [](Len(videos) = nCreated - nDeleted)
  /\ [][/\ nCreated' = nCreated + (IF Created THEN 1 ELSE 0)
        /\ nDeleted' = nDeleted + (IF Deleted THEN 1 ELSE 0)
        /\ Len(videos') # Len(videos) => Created \/ Deleted
        /\ videos' # videos => Created \/ Deleted \/ Updated]_vars

\* C13 witness: after two Creates answered 201 and a Delete answered 204 a
\* request that failed validation leaves one entity in the store.
C13_Witness ==
  /\ nCreated = 2
  /\ nDeleted = 1
  /\ Len(videos) = 1
  /\ last.res.status = 400

\* The elements of the array v that are outside the enum of rule r.
Offenders(v, r) == {i \in 1..Len(v.items) : v.items[i] \notin Range(r.enumValues[1])}

Least(S) == CHOOSE i \in S : \A j \in S : i <= j

\* The six checks of a field in their order, each with whether the value v
\* fails it under rule r and the message it gives: required, string type,
\* minLength, maxLength, array type, enum membership.
FieldChecks(v, r) ==
  << [fails |-> r.isRequired /\ v.type \in {"undefined", "null"},
      message |-> ErrRequired(r.fieldName)],
     [fails |-> r.isString /\ v.type # "string",
      message |-> ErrString(r.fieldName)],
     [fails |-> r.isString /\ v.type = "string" /\ r.minLength # <<>>
                /\ Len(v.chars) < r.minLength[1],
      message |-> IF r.minLength # <<>> THEN ErrMin(r.fieldName, r.minLength[1]) ELSE NoError],
     [fails |-> r.isString /\ v.type = "string" /\ r.maxLength # <<>>
                /\ Len(v.chars) > r.maxLength[1],
      message |-> IF r.maxLength # <<>> THEN ErrMax(r.fieldName, r.maxLength[1]) ELSE NoError],
     [fails |-> r.isArray /\ v.type # "array",
      message |-> ErrArray(r.fieldName)],
     [fails |-> r.isArray /\ r.enumValues # <<>> /\ v.type = "array"
                /\ Offenders(v, r) # {},
      message |-> IF r.isArray /\ r.enumValues # <<>> /\ v.type = "array" /\ Offenders(v, r) # {}
                    THEN ErrEnum(r.fieldName, v.items[Least(Offenders(v, r))])
                    ELSE NoError] >>

\* The checks that v fails under r.
Failed(v, r) == {k \in 1..6 : FieldChecks(v, r)[k].fails}

\* C14: validateField returns the message of the earliest check that the
\* value fails, in the order required, string type, minLength, maxLength,
\* array type, enum membership, and no error when the value fails none.
C14_FirstFailingCheck ==
  (probe.fn = "validateField" /\ probe.pc = "done") =>
    probe.error = IF Failed(probe.value, probe.rules) = {} THEN NoError
                  ELSE FieldChecks(probe.value, probe.rules)[Least(Failed(probe.value, probe.rules))].message

\* C14 witness: a string that is shorter than the minimum, longer than the
\* maximum and no array got the minimum-length message alone.
C14_Witness ==
  /\ probe.fn = "validateField"
  /\ probe.pc = "done"
  /\ Failed(probe.value, probe.rules) = {3, 4, 5}
  /\ probe.error = ErrMin("field", 3)

\* The field of the body passes its rule, as the data model states the rule.
FieldPasses(body, f) ==
  CASE f = "title" -> body.title.type = "string" /\ Len(body.title.chars) \in 1..40
    [] f = "author" -> body.author.type = "string" /\ Len(body.author.chars) \in 1..20
    [] f = "availableResolutions" ->
         /\ body.availableResolutions.type = "array"
         /\ \A i \in 1..Len(body.availableResolutions.items) :
              body.availableResolutions.items[i] \in
                {"144p", "240p", "360p", "480p", "720p", "1080p", "1440p", "2160p"}

FieldFailsIn(body) == [f \in {"title", "author", "availableResolutions"} |-> ~FieldPasses(body, f)]

\* The validated fields that fail in the body, in the order of the rules.
FailingFields(body) ==
  LET fails == FieldFailsIn(body)
      Keep(f) == fails[f]
  IN SelectSeq(<<"title", "author", "availableResolutions">>, Keep)

\* C15: validateVideoInput returns one message for each of title, author and
\* availableResolutions that fails its rule and none for a field that passes,
\* in the order title, author, availableResolutions.
C15_OneMessagePerFailingField ==
  (probe.fn = "validateVideoInput" /\ probe.pc = "done") =>
    /\ Len(probe.errors) = Len(FailingFields(probe.body))
    /\ \A i \in 1..Len(probe.errors) :
         /\ probe.errors[i].fieldName = FailingFields(probe.body)[i]
         /\ probe.errors[i] # NoError

\* C15 witness: a body whose title and availableResolutions fail and whose
\* author passes got two messages, the title's first.
C15_Witness ==
  /\ probe.fn = "validateVideoInput"
  /\ probe.pc = "done"
  /\ FailingFields(probe.body) = <<"title", "availableResolutions">>
  /\ Len(probe.errors) = 2
  /\ probe.errors[1].fieldName = "title"
  /\ probe.errors[2].fieldName = "availableResolutions"

\* C16: for a rule whose isRequired is false or unset and a value that is
\* absent (undefined or null), validateField returns no error, whatever the
\* other members of the rule are.
C16_OptionalAbsentPasses ==
  (/\ probe.fn = "validateField"
   /\ probe.pc = "done"
   /\ ~probe.rules.isRequired
   /\ probe.value.type \in {"undefined", "null"}) =>
    probe.error = NoError

\* C17: for an array checked against an array rule with enumValues,
\* validateField reports the element of the lowest index that is outside
\* enumValues and reports nothing when every element is inside, the empty
\* array included.
C17_FirstOffendingElement ==
  (/\ probe.fn = "validateField"
   /\ probe.pc = "done"
   /\ probe.value.type = "array"
   /\ probe.rules.isArray
   /\ probe.rules.enumValues # <<>>
   /\ ~probe.rules.isString) =>
    probe.error =
      IF \A i \in 1..Len(probe.value.items) :
           probe.value.items[i] \in Range(probe.rules.enumValues[1])
        THEN NoError
        ELSE ErrEnum(probe.rules.fieldName,
                     probe.value.items[Least(Offenders(probe.value, probe.rules))])

\* C17 witness: an array with a member of the enum followed by two elements
\* outside it got the message that names the first of the two.
C17_Witness ==
  /\ probe.fn = "validateField"
  /\ probe.pc = "done"
  /\ probe.value = Arr(<<"720p", "999p", "4k">>)
  /\ probe.rules.isArray
  /\ probe.rules.enumValues = <<VideoQuality>>
  /\ probe.error = ErrEnum("field", "999p")

\* C18: List, Get and a Delete answered 404 leave the store as it was: the
\* same entities in the same order with the same field values.
C18_ReadsLeaveStore ==
  [][(\/ Handles("GET /videos")
      \/ Handles("GET /videos/:id")
      \/ Handles("DELETE /videos/:id") /\ last'.res.status = 404) =>
       videos' = videos]_vars

\* C18 witness: a Delete was answered 404 on a store that holds entities.
C18_Witness ==
  /\ last.op = "DELETE /videos/:id"
  /\ last.res.status = 404
  /\ Len(videos) > 1

\* C19: a Delete answered 204 removes one entity, and the others keep their
\* field values and their order; an Update answered 204 replaces one entity
\* where it is, an entity with the id, and leaves the length of the store
\* and every other entity as they were.
C19_OneEntityTouched ==
  [][/\ Deleted =>
          /\ Len(videos') = Len(videos) - 1
          /\ \E k \in 1..Len(videos) :
               \A j \in 1..Len(videos') :
                 videos'[j] = IF j < k THEN videos[j] ELSE videos[j + 1]
     /\ Updated =>
          /\ Len(videos') = Len(videos)
          /\ \E k \in 1..Len(videos) :
               /\ StrictEquals(videos[k].id, ToNumber(last'.param))
               /\ \A j \in 1..Len(videos) : j # k => videos'[j] = videos[j]]_vars

\* C19 witness: a Delete answered 204 removed the second of three entities.
C19_Witness ==
  /\ last.op = "DELETE /videos/:id"
  /\ last.res.status = 204
  /\ nCreated = 3
  /\ born = <<1, 3>>
  /\ Len(videos) = 2

\* Of the entities that have the id that param denotes, the entity at index
\* t was inserted first.
EarliestInserted(t, param) ==
  \A j \in 1..Len(videos) :
    StrictEquals(videos[j].id, ToNumber(param)) => born[t] <= born[j]

\* C20: Get, Update and Delete act on the earliest-inserted entity that has
\* the requested id: Get returns it, Update merges the body into it and
\* leaves every other entity, Delete removes it and leaves every other
\* entity, also when several entities have the id.
C20_FirstMatchTargeted ==
  [][LET t == Target(videos, last'.param) IN
     /\ (Handles("GET /videos/:id") /\ HasId(videos, last'.param)) =>
          /\ EarliestInserted(t, last'.param)
          /\ last'.res.sent = <<videos[t]>>
     /\ Updated =>
          /\ EarliestInserted(t, last'.param)
          /\ videos' = [videos EXCEPT ![t] =
               [f \in Fields |-> IF last'.body[f].type # "undefined"
                                   THEN last'.body[f] ELSE videos[t][f]]]
     /\ Deleted =>
          /\ EarliestInserted(t, last'.param)
          /\ Len(videos') = Len(videos) - 1
          /\ \A j \in 1..Len(videos') :
               /\ videos'[j] = IF j < t THEN videos[j] ELSE videos[j + 1]
               /\ born'[j] = IF j < t THEN born[j] ELSE born[j + 1]]_vars

\* C20 witness: of two entities with the same id an Update changed the title
\* of the first and left the second.
C20_Witness ==
  /\ last.op = "PUT /videos/:id"
  /\ last.res.status = 204
  /\ last.body.id = Undefined
  /\ Len(videos) = 2
  /\ StrictEquals(videos[1].id, ToNumber(last.param))
  /\ StrictEquals(videos[2].id, ToNumber(last.param))
  /\ videos[1].title = last.body.title
  /\ videos[2].title # last.body.title

====
